---------------------------- MODULE Spec2Model ----------------------------
(***************************************************************************)
(* Model of components/style_traits/values/font.rs: FontWeight and its     *)
(* stepping functions, the FontStretch <-> f64 conversions, and the        *)
(* draining iterator EffectiveSources.                                     *)
(*                                                                         *)
(* Three specifications share the variables:                               *)
(*   SpecWeight   a FontWeight is constructed and then stepped/queried;    *)
(*   SpecStretch  FontStretch keywords and numbers are converted back and  *)
(*                forth;                                                   *)
(*   Spec         an EffectiveSources is built and drained.                *)
(* An f64 is modelled as an exact rational [num, den] (den > 0).           *)
(***************************************************************************)
EXTENDS Integers, Sequences

VARIABLES
    weight,      \* FontWeight.0 of the weight held, or NoWeight
    steps,       \* number of bolder()/lighter() calls made on the weight
    bolderRun,   \* length of the run of bolder() calls ending at this state
    lighterRun,  \* length of the run of lighter() calls ending at this state
    sources,     \* EffectiveSources.0, the Vec<Source>
    stored,      \* the Vec<Source> the EffectiveSources was built from
    drained,     \* the sources next() has returned so far, in order
    calls,       \* number of next() calls made
    trail,       \* the values of a chain of FontStretch/f64 conversions
    call         \* the last call: [op, arg, ret]

vars == <<weight, steps, bolderRun, lighterRun, sources, stored, drained,
          calls, trail, call>>

weightVars == <<weight, steps, bolderRun, lighterRun>>
sourceVars == <<sources, stored, drained, calls>>

NoCall == [op |-> "none"]

(***************************************************************************)
(* Bounds of the model.                                                    *)
(***************************************************************************)
\* from_int is tried on every n in -MaxInt..MaxInt and on the i32 extremes
MaxInt == 66500
\* at most MaxSteps bolder()/lighter() calls are made on one weight
MaxSteps == 4
\* an EffectiveSources holds at most MaxLen sources
MaxLen == 3
\* at most MaxExtra calls of next() are made after the storage is empty
MaxExtra == 2
\* numerators of the numbers handed to the f64 -> FontStretch conversion
MaxNum == 1000
\* at most MaxConv conversions are chained
MaxConv == 3

(***************************************************************************)
(* Machine integers.                                                       *)
(***************************************************************************)
I32_MIN == -2147483647 - 1
I32_MAX == 2147483647
U16_MOD == 65536
U16 == 0 .. (U16_MOD - 1)

\* Rust's % on i32: the remainder has the sign of the dividend
Rem(a, b) == IF a >= 0 THEN a % b ELSE -((-a) % b)

\* `n as u16`: truncation to the low 16 bits
AsU16(n) == n % U16_MOD

(***************************************************************************)
(* FontWeight                                                              *)
(***************************************************************************)
NoWeight == -1

Ok(v) == [ok |-> TRUE, val |-> v]
Err == [ok |-> FALSE]

normal == 400

bold == 700

\* the range test made after the cast to u16
from_int_truncating(n) ==
    IF AsU16(n) >= 100 /\ AsU16(n) <= 900 /\ AsU16(n) % 100 = 0
    THEN Ok(AsU16(n)) ELSE Err

from_int(n) ==
    IF n >= 100 /\ n <= 900 /\ Rem(n, 100) = 0 THEN Ok(AsU16(n)) ELSE Err

from_gecko_weight(w) == w

\* >= in place of >
is_bold_inclusive(w) == w >= 500

is_bold(w) == w > 500

\* the last branch forgotten
bolder_no_top(w) ==
    IF w < 400 THEN 400
    ELSE 700

\* <= in place of <
bolder_inclusive(w) ==
    IF w <= 400 THEN 400
    ELSE IF w <= 600 THEN 700
    ELSE 900

bolder(w) ==
    IF w < 400 THEN 400
    ELSE IF w < 600 THEN 700
    ELSE 900

\* <= in place of <
lighter_inclusive(w) ==
    IF w <= 600 THEN 100
    ELSE IF w <= 800 THEN 400
    ELSE 700

lighter(w) ==
    IF w < 600 THEN 100
    ELSE IF w < 800 THEN 400
    ELSE 700

IntInputs == (-MaxInt .. MaxInt) \cup {I32_MIN, I32_MAX}

idleSources == sources = << >> /\ stored = << >> /\ drained = << >> /\ calls = 0
idleWeight == weight = NoWeight /\ steps = 0 /\ bolderRun = 0 /\ lighterRun = 0

InitWeight ==
    /\ idleWeight
    /\ idleSources
    /\ trail = << >>
    /\ call = NoCall

\* FontWeight::normal()
Normal ==
    /\ call = NoCall
    /\ weight' = normal
    /\ call' = [op |-> "normal", arg |-> 0, ret |-> normal]
    /\ UNCHANGED <<steps, bolderRun, lighterRun, sourceVars, trail>>

\* FontWeight::bold()
Bold ==
    /\ call = NoCall
    /\ weight' = bold
    /\ call' = [op |-> "bold", arg |-> 0, ret |-> bold]
    /\ UNCHANGED <<steps, bolderRun, lighterRun, sourceVars, trail>>

\* FontWeight::from_int(n): the weight exists only when the result is Ok
FromInt ==
    /\ call = NoCall
    /\ \E n \in IntInputs :
          LET r == from_int(n) IN
          /\ weight' = IF r.ok THEN r.val ELSE NoWeight
          /\ call' = [op |-> "from_int", arg |-> n, ret |-> r]
    /\ UNCHANGED <<steps, bolderRun, lighterRun, sourceVars, trail>>

\* FontWeight::from_gecko_weight(w), for every u16
FromGeckoWeight ==
    /\ call = NoCall
    /\ \E w \in U16 :
          /\ weight' = from_gecko_weight(w)
          /\ call' = [op |-> "from_gecko_weight", arg |-> w,
                      ret |-> from_gecko_weight(w)]
    /\ UNCHANGED <<steps, bolderRun, lighterRun, sourceVars, trail>>

\* self.is_bold()
IsBold ==
    /\ weight # NoWeight
    /\ call' = [op |-> "is_bold", arg |-> weight, ret |-> is_bold(weight)]
    /\ UNCHANGED <<weightVars, sourceVars, trail>>

\* weight = weight.bolder()
Bolder ==
    /\ weight # NoWeight
    /\ steps < MaxSteps
    /\ weight' = bolder(weight)
    /\ call' = [op |-> "bolder", arg |-> weight, ret |-> bolder(weight)]
    /\ steps' = steps + 1
    /\ bolderRun' = bolderRun + 1
    /\ lighterRun' = 0
    /\ UNCHANGED <<sourceVars, trail>>

\* weight = weight.lighter()
Lighter ==
    /\ weight # NoWeight
    /\ steps < MaxSteps
    /\ weight' = lighter(weight)
    /\ call' = [op |-> "lighter", arg |-> weight, ret |-> lighter(weight)]
    /\ steps' = steps + 1
    /\ lighterRun' = lighterRun + 1
    /\ bolderRun' = 0
    /\ UNCHANGED <<sourceVars, trail>>

NextWeight ==
    \/ Normal
    \/ Bold
    \/ FromInt
    \/ FromGeckoWeight
    \/ IsBold
    \/ Bolder
    \/ Lighter

SpecWeight == InitWeight /\ [][NextWeight]_vars

(***************************************************************************)
(* Claims about FontWeight, checked under SpecWeight.                      *)
(***************************************************************************)
CssWeights == {100, 200, 300, 400, 500, 600, 700, 800, 900}

\* C1: from_int(n) succeeds if and only if 100 <= n <= 900 and n is a
\* multiple of 100; on success the weight's magnitude is n; in every other
\* case (negative, 0, off-grid, above 65535 even when n truncates to a legal
\* weight) it returns the error and no weight exists.
FromIntAcceptsExactlyCssWeights ==
    call.op = "from_int" =>
        /\ call.ret.ok <=> call.arg \in CssWeights
        /\ call.arg \in CssWeights =>
              /\ call.ret = Ok(call.arg)
              /\ weight = call.arg
        /\ call.arg \notin CssWeights =>
              /\ call.ret = Err
              /\ weight = NoWeight

\* 65636 = 65536 + 100 truncates to the legal weight 100 and is refused
FromIntRefusesTruncatingInput ==
    /\ call.op = "from_int"
    /\ call.arg = 65636
    /\ AsU16(call.arg) = 100
    /\ call.ret = Err

\* C5: bolder() of a magnitude m is 400 when m < 400, 700 when
\* 400 <= m < 600 and 900 when m >= 600, for every u16 m.
BolderSteps ==
    call.op = "bolder" =>
        /\ call.arg \in U16
        /\ weight = call.ret
        /\ call.arg < 400 => call.ret = 400
        /\ (400 <= call.arg /\ call.arg < 600) => call.ret = 700
        /\ call.arg >= 600 => call.ret = 900

\* the off-grid magnitude 599 steps to 700
BolderOffGrid ==
    /\ call.op = "bolder"
    /\ call.arg = 599
    /\ call.ret = 700

\* C6: lighter() of a magnitude m is 100 when m < 600, 400 when
\* 600 <= m < 800 and 700 when m >= 800, for every u16 m.
LighterSteps ==
    call.op = "lighter" =>
        /\ call.arg \in U16
        /\ weight = call.ret
        /\ call.arg < 600 => call.ret = 100
        /\ (600 <= call.arg /\ call.arg < 800) => call.ret = 400
        /\ call.arg >= 800 => call.ret = 700

\* the off-grid magnitude 799 steps to 400
LighterOffGrid ==
    /\ call.op = "lighter"
    /\ call.arg = 799
    /\ call.ret = 400

\* C9: is_bold() of a magnitude m is true if and only if m > 500; it is
\* false for 400 and 500 and true for 501 and 600.
IsBoldAbove500 ==
    call.op = "is_bold" =>
        /\ call.arg \in U16
        /\ call.ret <=> call.arg > 500
        /\ call.arg \in {400, 500} => call.ret = FALSE
        /\ call.arg \in {501, 600} => call.ret = TRUE
        /\ weight = call.arg

\* is_bold() has answered false for the magnitude 500
IsBoldFalseAt500 ==
    /\ call.op = "is_bold"
    /\ call.arg = 500
    /\ call.ret = FALSE

\* C10: three bolder() steps in a row end at 900, where bolder() stays;
\* three lighter() steps in a row end at 100, where lighter() stays; after
\* at least one step the magnitude is one of 100, 400, 700, 900, a value
\* from_int accepts.
SteppingConverges ==
    /\ bolderRun >= 3 => weight = 900
    /\ lighterRun >= 3 => weight = 100
    /\ (call.op = "bolder" /\ call.arg = 900) => call.ret = 900
    /\ (call.op = "lighter" /\ call.arg = 100) => call.ret = 100
    /\ steps > 0 =>
          /\ weight \in {100, 400, 700, 900}
          /\ from_int(weight) = Ok(weight)

\* four bolder() steps in a row have been made and the last one, applied to
\* 900, has left the magnitude at 900
BolderThreeStepsThenFixed ==
    /\ steps = 4
    /\ bolderRun = 4
    /\ call.op = "bolder"
    /\ call.arg = 900
    /\ weight = 900

(***************************************************************************)
(* FontStretch and its conversions to and from f64                         *)
(***************************************************************************)
FontStretch ==
    {"Normal", "UltraCondensed", "ExtraCondensed", "Condensed",
     "SemiCondensed", "SemiExpanded", "Expanded", "ExtraExpanded",
     "UltraExpanded"}

\* the f64 with the integer value n
F(n) == [num |-> n, den |-> 1]

\* self + 0.5
AddHalf(x) == [num |-> 2 * x.num + x.den, den |-> 2 * x.den]

\* f64::floor, of a rational with a positive denominator
Floor(x) == F(x.num \div x.den)

\* f64::min and f64::max against an integer-valued bound
Min(x, n) == IF x.num > n * x.den THEN F(n) ELSE x
Max(x, n) == IF x.num < n * x.den THEN F(n) ELSE x

\* `(index - 1.0) as usize` of an integer-valued f64: negatives saturate to 0
AsUsize(x) == IF x.num < 0 THEN 0 ELSE x.num \div x.den

Panic == "panic"

FONT_STRETCH_ENUM_MAP ==
    << "UltraCondensed", "ExtraCondensed", "Condensed", "SemiCondensed",
       "Normal", "SemiExpanded", "Expanded", "ExtraExpanded",
       "UltraExpanded" >>

\* the table in the order the enum declares its variants
from_declaration_order(stretch) ==
    CASE stretch = "Normal" -> F(1)
      [] stretch = "UltraCondensed" -> F(2)
      [] stretch = "ExtraCondensed" -> F(3)
      [] stretch = "Condensed" -> F(4)
      [] stretch = "SemiCondensed" -> F(5)
      [] stretch = "SemiExpanded" -> F(6)
      [] stretch = "Expanded" -> F(7)
      [] stretch = "ExtraExpanded" -> F(8)
      [] stretch = "UltraExpanded" -> F(9)

\* impl From<FontStretch> for f64
from(stretch) ==
    CASE stretch = "UltraCondensed" -> F(1)
      [] stretch = "ExtraCondensed" -> F(2)
      [] stretch = "Condensed" -> F(3)
      [] stretch = "SemiCondensed" -> F(4)
      [] stretch = "Normal" -> F(5)
      [] stretch = "SemiExpanded" -> F(6)
      [] stretch = "Expanded" -> F(7)
      [] stretch = "ExtraExpanded" -> F(8)
      [] stretch = "UltraExpanded" -> F(9)

\* indexing the static array: out of bounds panics
Lookup(i) ==
    IF i + 1 \in DOMAIN FONT_STRETCH_ENUM_MAP
    THEN FONT_STRETCH_ENUM_MAP[i + 1]
    ELSE Panic

\* floor(self) in place of floor(self + 0.5)
into_truncating(x) ==
    LET index == Max(Min(Floor(x), 9), 1)
    IN  Lookup(AsUsize(F(index.num - 1)))

\* impl Into<FontStretch> for f64
into(x) ==
    LET index == Max(Min(Floor(AddHalf(x)), 9), 1)
    IN  Lookup(AsUsize(F(index.num - 1)))

\* the numbers converted: n/d for every numerator within the bound
Dens == {1, 2, 4, 100}
Numbers == {[num |-> n, den |-> d] : n \in -MaxNum .. MaxNum, d \in Dens}

StretchVal(k) == [kind |-> "stretch", v |-> k]
NumberVal(x) == [kind |-> "f64", v |-> x]

Last(s) == s[Len(s)]

InitStretch ==
    /\ idleWeight
    /\ idleSources
    /\ trail = << >>
    /\ call = NoCall

\* a FontStretch keyword to start from
PickStretch ==
    /\ trail = << >>
    /\ \E k \in FontStretch : trail' = << StretchVal(k) >>
    /\ UNCHANGED <<weightVars, sourceVars, call>>

\* a number to start from
PickNumber ==
    /\ trail = << >>
    /\ \E x \in Numbers : trail' = << NumberVal(x) >>
    /\ UNCHANGED <<weightVars, sourceVars, call>>

\* f64::from(stretch)
From ==
    /\ trail # << >>
    /\ Len(trail) <= MaxConv
    /\ Last(trail).kind = "stretch"
    /\ trail' = Append(trail, NumberVal(from(Last(trail).v)))
    /\ call' = [op |-> "from", arg |-> Last(trail).v,
                ret |-> from(Last(trail).v)]
    /\ UNCHANGED <<weightVars, sourceVars>>

\* number.into()
Into ==
    /\ trail # << >>
    /\ Len(trail) <= MaxConv
    /\ Last(trail).kind = "f64"
    /\ trail' = Append(trail, StretchVal(into(Last(trail).v)))
    /\ call' = [op |-> "into", arg |-> Last(trail).v,
                ret |-> into(Last(trail).v)]
    /\ UNCHANGED <<weightVars, sourceVars>>

NextStretch ==
    \/ PickStretch
    \/ PickNumber
    \/ From
    \/ Into

SpecStretch == InitStretch /\ [][NextStretch]_vars

(***************************************************************************)
(* Claims about FontStretch, checked under SpecStretch.                    *)
(***************************************************************************)
\* the keywords from narrowest to widest, as the claims number them
StretchIndex ==
    [k \in FontStretch |->
        CASE k = "UltraCondensed" -> 1
          [] k = "ExtraCondensed" -> 2
          [] k = "Condensed" -> 3
          [] k = "SemiCondensed" -> 4
          [] k = "Normal" -> 5
          [] k = "SemiExpanded" -> 6
          [] k = "Expanded" -> 7
          [] k = "ExtraExpanded" -> 8
          [] k = "UltraExpanded" -> 9]

\* C7: the numeric inverse never panics and returns the keyword of index
\* clamp(floor(x + 0.5), 1, 9): the keyword of index i is returned exactly
\* when i - 0.5 <= x (or i = 1) and x < i + 0.5 (or i = 9); 4.5 gives
\* Normal, 4.49 SemiCondensed, -5.0 UltraCondensed and 99.0 UltraExpanded.
IntoRoundsHalfUpAndSaturates ==
    call.op = "into" =>
        LET x == call.arg IN
        /\ call.ret \in FontStretch
        /\ \A i \in 1 .. 9 :
              (StretchIndex[call.ret] = i) <=>
                  /\ (i = 1 \/ 2 * x.num >= (2 * i - 1) * x.den)
                  /\ (i = 9 \/ 2 * x.num < (2 * i + 1) * x.den)
        /\ 2 * x.num < x.den => call.ret = "UltraCondensed"
        /\ 2 * x.num >= 17 * x.den => call.ret = "UltraExpanded"
        /\ x = [num |-> 9, den |-> 2] => call.ret = "Normal"
        /\ x = [num |-> 449, den |-> 100] => call.ret = "SemiCondensed"
        /\ x = F(-5) => call.ret = "UltraCondensed"
        /\ x = F(99) => call.ret = "UltraExpanded"

\* the exact half 4.5 has been converted, to Normal
IntoHalfRoundsUp ==
    /\ call.op = "into"
    /\ call.arg = [num |-> 9, den |-> 2]
    /\ call.ret = "Normal"

\* C8: the numeric projection maps each keyword to its index 1..9 in the
\* narrowest-to-widest order, distinct keywords to distinct indices, and the
\* numeric inverse of that index is the keyword projected.
ProjectionRoundTrips ==
    \A i \in 1 .. Len(trail) :
        (trail[i].kind = "stretch" /\ i < Len(trail)) =>
            /\ trail[i + 1] = NumberVal(F(StretchIndex[trail[i].v]))
            /\ \A k \in FontStretch :
                  from(k) = trail[i + 1].v => k = trail[i].v
            /\ i + 2 <= Len(trail) => trail[i + 2] = trail[i]

\* Normal has been projected to 5 and converted back to Normal
NormalRoundTripped ==
    /\ Len(trail) = 3
    /\ trail[1] = StretchVal("Normal")
    /\ trail[2] = NumberVal(F(5))
    /\ trail[3] = StretchVal("Normal")

(***************************************************************************)
(* Source and EffectiveSources                                             *)
(***************************************************************************)
None == [some |-> FALSE]
Some(x) == [some |-> TRUE, val |-> x]

\* Source::Url(Option<ServoUrl>) and Source::Local(Atom)
Url(u) == [tag |-> "Url", url |-> u]
Local(a) == [tag |-> "Local", atom |-> a]

SourceValues == {Url(None), Url(Some("a.woff")), Local("Arial")}

RECURSIVE SeqsUpTo(_)
SeqsUpTo(n) ==
    IF n = 0 THEN {<< >>}
    ELSE LET shorter == SeqsUpTo(n - 1) IN
         shorter \cup {Append(s, x) : s \in shorter, x \in SourceValues}

\* removes and returns the first element
next_front(v) ==
    IF v = << >> THEN [ret |-> None, vec |-> v]
    ELSE [ret |-> Some(Head(v)), vec |-> Tail(v)]

\* returns the last element and leaves it in place
next_peek(v) ==
    IF v = << >> THEN [ret |-> None, vec |-> v]
    ELSE [ret |-> Some(Last(v)), vec |-> v]

\* EffectiveSources::next: self.0.pop()
next(v) ==
    IF v = << >> THEN [ret |-> None, vec |-> v]
    ELSE [ret |-> Some(Last(v)), vec |-> SubSeq(v, 1, Len(v) - 1)]

\* Iterator's default size_hint
size_hint_default(v) == << 0, None >>

\* EffectiveSources::size_hint
size_hint(v) == << Len(v), Some(Len(v)) >>

\* EffectiveSources(vec)
Init ==
    /\ idleWeight
    /\ trail = << >>
    /\ stored \in SeqsUpTo(MaxLen)
    /\ sources = stored
    /\ drained = << >>
    /\ calls = 0
    /\ call = NoCall

\* self.next()
NextSource ==
    /\ calls < Len(stored) + MaxExtra
    /\ LET r == next(sources) IN
       /\ sources' = r.vec
       /\ drained' = IF r.ret.some THEN Append(drained, r.ret.val)
                     ELSE drained
       /\ call' = [op |-> "next", arg |-> sources, ret |-> r.ret]
    /\ calls' = calls + 1
    /\ UNCHANGED <<weightVars, stored, trail>>

\* self.size_hint()
SizeHint ==
    /\ call' = [op |-> "size_hint", arg |-> sources,
                ret |-> size_hint(sources)]
    /\ UNCHANGED <<weightVars, sourceVars, trail>>

Next ==
    \/ NextSource
    \/ SizeHint

Spec == Init /\ [][Next]_vars

(***************************************************************************)
(* Claims about EffectiveSources, checked under Spec.                      *)
(***************************************************************************)
Remaining == Len(stored) - Len(drained)

\* C2: the k-th call of next() (1 <= k <= n) removes and returns the last
\* element of the remaining storage, so the drains yield the stored
\* sequence in reverse storage order; every call after the n-th returns
\* None and leaves the storage empty.
NextDrainsFromTheEnd ==
    /\ Len(drained) = IF calls < Len(stored) THEN calls ELSE Len(stored)
    /\ \A k \in 1 .. Len(drained) : drained[k] = stored[Len(stored) - k + 1]
    /\ sources = SubSeq(stored, 1, Remaining)
    /\ call.op = "next" =>
          /\ call.arg # << >> =>
                /\ call.ret = Some(call.arg[Len(call.arg)])
                /\ Len(sources) = Len(call.arg) - 1
          /\ call.arg = << >> => call.ret = None
    /\ calls > Len(stored) =>
          /\ sources = << >>
          /\ call.op = "next" => call.ret = None

\* [C, B, A] has been drained as A, B, C and a fourth call returned None
ThreeDrainedInReverse ==
    /\ stored = << Local("Arial"), Url(Some("a.woff")), Url(None) >>
    /\ drained = << Url(None), Url(Some("a.woff")), Local("Arial") >>
    /\ calls = 4
    /\ call.op = "next"
    /\ call.ret = None
    /\ sources = << >>

\* C3 as stated: the sources are returned in the order of the sequence
\* from front to back, the first element of the sequence first.
DrainedFrontToBack ==
    \A k \in 1 .. Len(drained) : drained[k] = stored[k]

RECURSIVE Reverse(_)
Reverse(s) == IF s = << >> THEN << >> ELSE Append(Reverse(Tail(s)), Head(s))

\* C3 as amended: draining visits and removes each source of the sequence
\* exactly once, in the order of the sequence from back to front: every
\* stored source is either still in storage or has been returned once, the
\* last element of the sequence is the first one returned and the first
\* element is the last one returned.
DrainedBackToFrontOnce ==
    /\ stored = sources \o Reverse(drained)
    /\ drained # << >> => drained[1] = Last(stored)
    /\ sources = << >> =>
          /\ Len(drained) = Len(stored)
          /\ drained = Reverse(stored)
          /\ stored # << >> => Last(drained) = stored[1]

\* a sequence of three with different ends has been drained completely
DrainedAllThree ==
    /\ Len(stored) = 3
    /\ stored[1] # stored[3]
    /\ sources = << >>
    /\ Len(drained) = 3
    /\ drained[1] = stored[3]
    /\ drained[3] = stored[1]

\* C4: size_hint() returns the number of sources not yet drained as its
\* lower and as its upper bound: the stored length at first, one less after
\* each next() that returns a source, 0 exactly when the next next()
\* returns None, and still 0 after further calls; size_hint() leaves the
\* sequence as it is.
SizeHintIsExactRemaining ==
    /\ size_hint(sources) = << Remaining, Some(Remaining) >>
    /\ calls = 0 => size_hint(sources) = << Len(stored), Some(Len(stored)) >>
    /\ (size_hint(sources)[1] = 0) <=> (next(sources).ret = None)
    /\ calls >= Len(stored) => size_hint(sources) = << 0, Some(0) >>
    /\ call.op = "next" =>
          /\ call.ret.some =>
                size_hint(sources)[1] = size_hint(call.arg)[1] - 1
          /\ ~call.ret.some => size_hint(sources) = << 0, Some(0) >>
    /\ call.op = "size_hint" =>
          /\ call.ret = << Remaining, Some(Remaining) >>
          /\ sources = call.arg

\* after three sources were drained and next() returned None, size_hint()
\* has answered (0, Some(0))
SizeHintZeroAfterExhaustion ==
    /\ Len(stored) = 3
    /\ calls = 4
    /\ call.op = "size_hint"
    /\ call.ret = << 0, Some(0) >>
    /\ sources = << >>

=============================================================================
